---------------------------- MODULE Spec2Model ----------------------------
(***************************************************************************)
(* Model of the brightspace downloader (src/main.py): the course loop of   *)
(* __main__, the navigator get_docs_from_course / get_docs_from_non_xframe,*)
(* the per-unit driver dl_units and the normalizer move_and_extract_files  *)
(* with clean_up_files and save_html_page.                                 *)
(* Spec is the course loop, NormSpec the normalizer on its own, StartSpec   *)
(* the start-up of __main__ up to the course loop.                         *)
(*                                                                         *)
(* Names.  A file name is a record [words, exts]: the words of the part    *)
(* before the first '.', and the '.'-separated segments after it, so       *)
(* "AI Unit 1.zip" is [words |-> <<"AI","Unit 1">>, exts |-> <<"zip">>]    *)
(* and a file called "py" is [words |-> <<"py">>, exts |-> <<>>].          *)
(* Python's `sub in name` is modelled at word granularity (sub is a        *)
(* contiguous run of the words).  A path is a sequence of components, each *)
(* a sequence of words; an absolute path starts with the component Root.   *)
(* Path components are taken to hold no '.' themselves.                    *)
(***************************************************************************)
EXTENDS Integers, Sequences, FiniteSets, TLC

VARIABLES
    fs,        \* the files on disk: records [dir, name, arc]
    dirs,      \* the directories on disk (paths)
    cwd,       \* the process's working directory (os.chdir)
    pc,        \* the program's position
    ci,        \* index in the catalog of the course being processed
    layout,    \* layout variant found for the current course
    trigger,   \* dl_element of the running dl_units call
    units,     \* units of the running dl_units call, in iteration order
    ui,        \* index of the unit being processed
    pending,   \* what the try statement of dl_units does after its finally
    ndest,     \* destination_folder of the running move_and_extract_files
    nsrc,      \* source_folder of the running move_and_extract_files
    nfilter,   \* zip_file_names of the running move_and_extract_files
    todo,      \* files the loop of move_and_extract_files has still to visit
    ret,       \* where move_and_extract_files returns to
    ev,        \* history: what happened to the current unit, in order
    runs,      \* history: one record per dl_units call
    alog,      \* history: one record per file visited by the running normalizer call
    logged,    \* history: what the course loop logged per course
    fs0,       \* history: the files on disk when the running normalizer call began
    expected,  \* history: per course, the target folders of the units its page yielded
    served,    \* number of files the platform has delivered to the save root
    yielded,   \* number of unit elements the pages have yielded
    env,       \* which variables of the environment are set (lines 30-35)
    net,       \* history: the network activity of the start-up, in order
    origin     \* history: per file written to the save root, the unit it was written for

vars == <<fs, dirs, cwd, pc, ci, layout, trigger, units, ui, pending,
          ndest, nsrc, nfilter, todo, ret, ev, runs, alog, logged, fs0,
          expected, served, yielded, env, net, origin>>

-----------------------------------------------------------------------------
(* Bounds of the model *)

\* number of courses in the catalog
MaxCourses == 2
\* largest number of units a page yields
MaxUnits == 2
\* how far past the member cap the largest archive goes
MaxOver == 1
\* number of unit elements the pages of one run yield
MaxYield == 3
\* number of files the platform delivers in one run
MaxDownloads == 1

\* main.py line 248: archives with more members are not extracted
CAP == 15

-----------------------------------------------------------------------------
(* Names and paths *)

Mk(w, e) == [words |-> w, exts |-> e]

Last(s) == s[Len(s)]

\* name.split(".") : the segments between dots, the first being the words
SplitDot(n) == <<n.words>> \o [i \in 1..Len(n.exts) |-> <<n.exts[i]>>]

\* pathlib's p.suffix, without its dot; "" when the name has no dot
Suffix(n) == IF n.exts = <<>> THEN "" ELSE Last(n.exts)

\* sub in name, for a word sequence sub
Contains(sub, n) ==
    \E i \in 0..(Len(n.words) - Len(sub)) :
        \A j \in 1..Len(sub) : n.words[i + j] = sub[j]

\* glob("*.html*")
GlobHtml(n) == \E i \in 1..Len(n.exts) : n.exts[i] = "html"

Root == <<"/">>

IsAbs(p) == p # <<>> /\ p[1] = Root

\* pathlib's a / b
PathJoin(a, b) == IF IsAbs(b) THEN b ELSE a \o b

\* main.py line 29: the save root (absolute by default)
save_folder == <<Root, <<"brightspace">>>>

\* main.py line 221: extensions the normalizer picks up
extensions == {"zip", "html", "part"}

\* main.py line 229: last segments that send an archive to a folder of its own
files_to_folder == {<<"ipynb">>, <<"csv">>, <<"txt">>, <<"py">>}

\* main.py lines 134 and 265: the sentinel
Sentinel == <<"Table of Contents">>


-----------------------------------------------------------------------------
(* The archives a download can yield.  A file's arc field indexes Archives; *)
(* arc = 0 is a file that is no readable archive (a page, a partial         *)
(* download, a truncated .zip).                                             *)

PadWords == <<"p01", "p02", "p03", "p04", "p05", "p06", "p07", "p08", "p09",
              "p10", "p11", "p12", "p13", "p14", "p15", "p16", "p17", "p18">>

PadName(i) == Mk(<<PadWords[i]>>, <<"pdf">>)

\* n members, all slides, or all slides but a notebook in the last place
BigListing(n, proj) ==
    [i \in 1..n |-> IF proj /\ i = n THEN Mk(<<"lab">>, <<"ipynb">>) ELSE PadName(i)]

SmallArchives ==
    << <<Mk(<<"a">>, <<"pdf">>), Mk(<<"b">>, <<"ipynb">>)>>,
       <<Mk(<<"b">>, <<"ipynb">>), Mk(<<"a">>, <<"pdf">>)>>,
       <<Mk(<<"slides">>, <<"pdf">>), Mk(<<"notes">>, <<"pdf">>)>>,
       <<Mk(Sentinel, <<"html">>), Mk(<<"Intro">>, <<"html">>)>>,
       <<Mk(<<"py">>, <<>>)>>,
       <<>> >>

BigArchives ==
    [k \in 1..(2 * (MaxOver + 1)) |->
        BigListing(CAP + ((k - 1) \div 2), k % 2 = 0)]

Archives == SmallArchives \o BigArchives

-----------------------------------------------------------------------------
(* File system primitives *)

File(d, n, a) == [dir |-> d, name |-> n, arc |-> a]

\* writing a file replaces what was at its path
Put(files, f) == {g \in files : ~(g.dir = f.dir /\ g.name = f.name)} \cup {f}

RECURSIVE PutAll(_, _)
PutAll(files, new) ==
    IF new = {} THEN files
    ELSE LET f == CHOOSE x \in new : TRUE
         IN PutAll(Put(files, f), new \ {f})

\* ZipFile.extractall(dest) of the first k members of a listing
ExtractMembers(files, listing, k, dest) ==
    PutAll(files, {File(dest, listing[i], 0) : i \in 1..k})

\* the file set after clean_up_files(folder, exts), folder resolved against the cwd
clean_up_files(files, at, folder, exts) ==
    {g \in files : ~(g.dir = PathJoin(at, folder) /\ Suffix(g.name) \in exts)}

\* lines 264-266: any page with the sentinel in its name triggers the deletion
\* of every .html file of the folder
Prune(files, target) ==
    IF \E g \in files : g.dir = target /\ GlobHtml(g.name) /\ Contains(Sentinel, g.name)
    THEN clean_up_files(files, target, target, {"html"})
    ELSE files

-----------------------------------------------------------------------------
(* move_and_extract_files: the classification and extraction of one archive *)

\* line 252: name.split(".")[-1] in files_to_folder
IsProjectMember(n) == Last(SplitDot(n)) \in files_to_folder

\* line 253: target_path / zip_ref.filename.split(".")[0]
NestedDir(target, n) == target \o <<n.words>>

\* lines 251-257: the scan of the listing, from member i on. flat and nested
\* record which extractall calls were made.
RECURSIVE ScanFrom(_, _, _, _)
ScanFrom(i, listing, st, f) ==
    IF i > Len(listing) THEN st
    ELSE IF IsProjectMember(listing[i])
         THEN [st EXCEPT !.files = ExtractMembers(st.files, listing, Len(listing),
                                                  NestedDir(f.dir, f.name)),
                         !.dirs = st.dirs \cup {NestedDir(f.dir, f.name)},
                         !.nested = TRUE]
         ELSE ScanFrom(i + 1, listing,
                       [st EXCEPT !.files = ExtractMembers(st.files, listing,
                                                           Len(listing), f.dir),
                                  !.flat = TRUE],
                       f)

ExtractArchive(files, ds, f) ==
    ScanFrom(1, Archives[f.arc],
             [files |-> files, dirs |-> ds, flat |-> FALSE, nested |-> FALSE], f)

\* line 248 with the cap itself counted as too many
Oversized_AtCap(listing) == Len(listing) >= CAP

\* line 248
Oversized(listing) == Len(listing) > CAP


-----------------------------------------------------------------------------
(* The catalog and the bookkeeping of the course loop *)

CourseWords == <<"AI", "ML", "DB", "OS">>

\* course["name"] of the i-th catalog entry
CourseName(i) == <<CourseWords[i]>>

Courses == 1..MaxCourses

NoFilter == <<>>

\* st is the state of the unit the run is at
SetStatus(rs, s) == [rs EXCEPT ![Len(rs)] = [@ EXCEPT !.st = s, !.at = ui]]

EndRun(rs, e) == [rs EXCEPT ![Len(rs)] = [@ EXCEPT !.end = e]]

\* the locals of dl_units and of the normalizer once their frames are gone
DropFrames ==
    /\ layout' = "none"
    /\ trigger' = "none"
    /\ units' = <<>>
    /\ ui' = 0
    /\ pending' = "none"
    /\ ndest' = <<>>
    /\ nsrc' = <<>>
    /\ nfilter' = NoFilter
    /\ todo' = {}
    /\ ret' = "none"

\* lines 364-365 without the handler: the exception ends the loop and the run
PropagateToMain_NoHandler(st) ==
    /\ runs' = EndRun(SetStatus(runs, st), "raised")
    /\ logged' = logged
    /\ ci' = ci
    /\ pc' = "crashed"
    /\ DropFrames

\* An exception leaves dl_units while unit ui is being processed: nothing in
\* dl_units, get_docs_from_non_xframe or get_docs_from_course catches it, so it
\* reaches the handler of the course loop (lines 364-365), which logs it and
\* goes on with the next course.
PropagateToMain(st) ==
    /\ runs' = EndRun(SetStatus(runs, st), "raised")
    /\ logged' = [logged EXCEPT ![ci] = "exception"]
    /\ ci' = ci + 1
    /\ pc' = "main_loop"
    /\ DropFrames

\* An exception leaves move_and_extract_files while it visits the file of entry e
NormRaise(e) ==
    IF ret = "dl_units"
    THEN /\ PropagateToMain(Last(runs).st)
         /\ ev' = Append(ev, "raise")
         /\ alog' = {}
         /\ fs0' = {}
    ELSE /\ pc' = "norm_raised"
         /\ alog' = alog \cup {e}
         /\ UNCHANGED <<ci, layout, trigger, units, ui, pending, ndest, nsrc,
                        nfilter, todo, ret, ev, runs, logged, fs0>>

-----------------------------------------------------------------------------
(* move_and_extract_files *)

\* lines 231-232: the files of the source folder with a suffix in extensions
Candidates(files, src) ==
    {f \in files : f.dir = src /\ Suffix(f.name) \in extensions}

\* line 236: the candidates whose name contains a name of the filter
Filtered(cands, filt) ==
    {f \in cands : \E k \in 1..Len(filt) : Contains(filt[k], f.name)}

\* line 239: filtered_files or files
Selection(files, src, filt) ==
    IF Filtered(Candidates(files, src), filt) # {}
    THEN Filtered(Candidates(files, src), filt)
    ELSE Candidates(files, src)

\* lines 220-237: the call, up to the loop, on the files that are on disk when
\* the caller's step is over
MoveStart(dest, src, filt, back) ==
    /\ ndest' = dest
    /\ nsrc' = src
    /\ nfilter' = filt
    /\ todo' = Selection(fs', src, filt)
    /\ ret' = back
    /\ alog' = {}
    /\ fs0' = fs'
    /\ pc' = "move"

Entry(f, target, dec, st, unl, rsd) ==
    [name |-> f.name, arc |-> f.arc, from |-> f.dir, target |-> target,
     decision |-> dec, flat |-> st.flat, nested |-> st.nested,
     unlinked |-> unl, raised |-> rsd]

NoExtract == [flat |-> FALSE, nested |-> FALSE]

Target(f) == PathJoin(f.dir, ndest)

Moved(f) == File(Target(f), f.name, f.arc)

\* line 241: the file is at its new path
Renamed(f) == Put(fs \ {f}, Moved(f))

\* line 241 raises: the target folder does not exist
MoveRenameFails(f) ==
    /\ Target(f) \notin dirs
    /\ UNCHANGED <<fs, dirs>>
    /\ NormRaise(Entry(f, Target(f), "NONE", NoExtract, FALSE, TRUE))

\* lines 240-242, 264-266: a file that is no .zip is moved, then the folder pruned
MovePlain(f) ==
    /\ Target(f) \in dirs
    /\ Suffix(f.name) # "zip"
    /\ fs' = Prune(Renamed(f), Target(f))
    /\ todo' = todo \ {f}
    /\ alog' = alog \cup {Entry(f, Target(f), "NONE", NoExtract, FALSE, FALSE)}
    /\ UNCHANGED <<dirs, pc, ci, layout, trigger, units, ui, pending, ndest,
                   nsrc, nfilter, ret, ev, runs, logged, fs0>>

\* line 246 raises: the moved file is no readable archive
MoveBadZip(f) ==
    /\ Target(f) \in dirs
    /\ Suffix(f.name) = "zip"
    /\ f.arc = 0
    /\ fs' = Renamed(f)
    /\ UNCHANGED dirs
    /\ NormRaise(Entry(f, Target(f), "NONE", NoExtract, FALSE, TRUE))

\* lines 248-249: too many members, on to the next file
MoveOversized(f) ==
    /\ Target(f) \in dirs
    /\ Suffix(f.name) = "zip"
    /\ f.arc # 0
    /\ Oversized(Archives[f.arc])
    /\ fs' = Renamed(f)
    /\ todo' = todo \ {f}
    /\ alog' = alog \cup {Entry(f, Target(f), "SKIP", NoExtract, FALSE, FALSE)}
    /\ UNCHANGED <<dirs, pc, ci, layout, trigger, units, ui, pending, ndest,
                   nsrc, nfilter, ret, ev, runs, logged, fs0>>

\* lines 258-260 with the unlink left out
AfterExtract_NoUnlink(files, f) == files

\* lines 258-260: the archive is closed and deleted
AfterExtract(files, f) == files \ {Moved(f)}

\* lines 250-266: the archive is extracted, deleted, and the folder pruned
MoveExtract(f) ==
    /\ Target(f) \in dirs
    /\ Suffix(f.name) = "zip"
    /\ f.arc # 0
    /\ ~Oversized(Archives[f.arc])
    /\ LET st == ExtractArchive(Renamed(f), dirs, Moved(f))
       IN /\ fs' = Prune(AfterExtract(st.files, f), Target(f))
          /\ dirs' = st.dirs
          /\ alog' = alog \cup {Entry(f, Target(f), "EXTRACT", st,
                                      Moved(f) \notin AfterExtract(st.files, f), FALSE)}
    /\ todo' = todo \ {f}
    /\ UNCHANGED <<pc, ci, layout, trigger, units, ui, pending, ndest,
                   nsrc, nfilter, ret, ev, runs, logged, fs0>>

\* lines 253/257 raise: the first extractall call fails after writing its first
\* member; nothing after it runs, the archive stays where it was moved to
MoveExtractFails(f) ==
    /\ Target(f) \in dirs
    /\ Suffix(f.name) = "zip"
    /\ f.arc # 0
    /\ ~Oversized(Archives[f.arc])
    /\ Archives[f.arc] # <<>>
    /\ LET listing == Archives[f.arc]
           nest == IsProjectMember(listing[1])
           dest == IF nest THEN NestedDir(Target(f), f.name) ELSE Target(f)
       IN /\ fs' = ExtractMembers(Renamed(f), listing, 1, dest)
          /\ dirs' = dirs \cup {dest}
          /\ NormRaise(Entry(f, Target(f), "EXTRACT",
                             [flat |-> ~nest, nested |-> nest], FALSE, TRUE))

\* lines 239-266: one iteration of the loop; a set has no fixed iteration order
MoveFile ==
    /\ pc = "move"
    /\ \E f \in todo :
          \/ MoveRenameFails(f)
          \/ MovePlain(f)
          \/ MoveBadZip(f)
          \/ MoveOversized(f)
          \/ MoveExtract(f)
          \/ MoveExtractFails(f)
    /\ UNCHANGED <<cwd, expected, served, yielded, env, net, origin>>


-----------------------------------------------------------------------------
(* The pages of the platform: what the browser finds is the environment's *)
(* choice, drawn from bounded sets.                                        *)

\* A unit element: the first line of its text, and what follows the first line
\* ("" nothing, "digits" no letter or space, "alpha" some letter)
Unit(n, x) == [name |-> n, extra |-> x]

UnitTexts == {Unit(<<"Unit 1">>, ""), Unit(<<"Unit 2">>, ""), Unit(Sentinel, "")}

RECURSIVE SeqsUpTo(_, _)
SeqsUpTo(S, n) ==
    IF n = 0 THEN {<<>>}
    ELSE SeqsUpTo(S, n - 1) \cup
         {Append(q, x) : q \in {r \in SeqsUpTo(S, n - 1) : Len(r) = n - 1}, x \in S}

UnitSeqs == SeqsUpTo(UnitTexts, MaxUnits)

\* line 138: re.sub(r'[^A-Za-z ]+', '', x.text) not in ignore_content
NotIgnored(u) == ~(u.name = Sentinel /\ u.extra \in {"", "digits"})

\* line 138: the filter keeps the order of the elements
FilterUnits(us) == SelectSeq(us, NotIgnored)

\* line 189 with the name made to depend on what has been downloaded so far
unit_name_Numbered(u) == IF served = 0 THEN u.name ELSE Append(u.name, "copy")

\* line 189: unit.text.split("\n")[0]
unit_name(u) == u.name

\* line 190: pathlib.Path(course_name) / pathlib.Path(unit_name)
target_path(c, u) == <<CourseName(c), unit_name(u)>>

\* archives the platform serves in the course loop
PipeArcs == {0, 3, 4, Len(Archives)}

\* what the browser has written to the save root when the settle wait ends
Downloads(c, u) ==
    {{}}
    \cup {{File(save_folder, Mk(CourseName(c) \o unit_name(u), <<"zip">>), a)} : a \in PipeArcs}
    \cup {{File(save_folder, Mk(CourseName(c) \o unit_name(u), <<"zip", "part">>), 0)}}
    \cup {{File(save_folder, Mk(<<"export">>, <<"zip">>), 3)}}

NewRun(c, trig, us) ==
    [course |-> c, trigger |-> trig, units |-> us,
     at |-> 0, st |-> "NONE", end |-> "running"]

-----------------------------------------------------------------------------
(* The course loop, the navigator and the driver *)

normvars == <<ndest, nsrc, nfilter, todo, ret, alog, fs0>>

startvars == <<env, net>>

\* lines 30-35 with every variable set
FullEnv == [user |-> TRUE, password |-> TRUE, bootcamp_url |-> TRUE]

\* the browser or save_html_page writes files to the save root while the unit
\* with target folder owner is processed; a file of the same name is replaced
Appear(o, files, owner) ==
    {x \in o : \A f \in files : x.name # f.name}
    \cup {[name |-> f.name, owner |-> owner] : f \in files}

\* lines 348-353: the state when the course loop is entered
Init ==
    /\ fs = {}
    /\ dirs = {save_folder, save_folder \o <<<<"Python coding bootcamp">>>>}
    /\ cwd = save_folder \o <<<<"Python coding bootcamp">>>>
    /\ pc = "main_loop"
    /\ ci = 1
    /\ layout = "none"
    /\ trigger = "none"
    /\ units = <<>>
    /\ ui = 0
    /\ pending = "none"
    /\ ndest = <<>>
    /\ nsrc = <<>>
    /\ nfilter = NoFilter
    /\ todo = {}
    /\ ret = "none"
    /\ ev = <<>>
    /\ runs = <<>>
    /\ alog = {}
    /\ logged = [c \in Courses |-> "none"]
    /\ fs0 = {}
    /\ expected = [c \in Courses |-> {}]
    /\ served = 0
    /\ yielded = 0
    /\ env = FullEnv
    /\ net = <<>>
    /\ origin = {}

\* lines 355-362 and 151-155: the per-course cleanup, create_base_folder and
\* the navigation to the course page, which may raise
MainLoop ==
    /\ pc = "main_loop"
    /\ ci \in Courses
    /\ fs' = clean_up_files(fs, cwd, save_folder, {"zip"})
    /\ dirs' = dirs \cup {save_folder}
    /\ cwd' = save_folder
    /\ \/ /\ pc' = "detect"
          /\ UNCHANGED <<ci, logged>>
       \/ /\ logged' = [logged EXCEPT ![ci] = "exception"]
          /\ ci' = ci + 1
          /\ pc' = "main_loop"
    /\ runs' = <<>>
    /\ ev' = <<>>
    /\ UNCHANGED <<layout, trigger, units, ui, pending, expected, served, yielded>>
    /\ UNCHANGED <<normvars, startvars, origin>>

\* lines 367-368: the loop is over
MainQuit ==
    /\ pc = "main_loop"
    /\ ci \notin Courses
    /\ fs' = clean_up_files(fs, cwd, save_folder, {"zip"})
    /\ pc' = "done"
    /\ runs' = <<>>
    /\ ev' = <<>>
    /\ UNCHANGED <<dirs, cwd, ci, layout, trigger, units, ui, pending, logged,
                   expected, served, yielded>>
    /\ UNCHANGED <<normvars, startvars, origin>>

\* lines 183-184: dl_units creates the course folder under the cwd and enters it
EnterDlUnits(trig, us) ==
    /\ dirs' = dirs \cup {cwd \o <<CourseName(ci)>>}
    /\ cwd' = cwd \o <<CourseName(ci)>>
    /\ trigger' = trig
    /\ units' = us
    /\ ui' = 1
    /\ runs' = Append(runs, NewRun(ci, trig, us))
    /\ expected' = IF runs = <<>>
                   THEN [expected EXCEPT ![ci] =
                            {save_folder \o target_path(ci, us[i]) : i \in 1..Len(us)}]
                   ELSE expected
    /\ pc' = "unit_loop"

\* line 363 and the loop's next iteration: get_docs_from_course has returned
CourseFinished ==
    /\ logged' = [logged EXCEPT ![ci] = "finished"]
    /\ ci' = ci + 1
    /\ pc' = "main_loop"

\* lines 157-162 and 134-141: no frame means units by the fixed path, filtered,
\* and driven by text
Detect ==
    /\ pc = "detect"
    /\ \/ /\ layout' = "framed"
          /\ pc' = "enumerate"
          /\ UNCHANGED <<dirs, cwd, trigger, units, ui, runs, expected, yielded>>
       \/ /\ layout' = "nonframed"
          /\ \E us \in UnitSeqs :
                /\ yielded + Len(us) <= MaxYield
                /\ yielded' = yielded + Len(us)
                /\ EnterDlUnits("text", FilterUnits(us))
    /\ UNCHANGED <<fs, ci, pending, ev, logged, served>>
    /\ UNCHANGED <<normvars, startvars, origin>>

\* lines 165-171: units by class; dl_units only when there are some
Enumerate ==
    /\ pc = "enumerate"
    /\ \E us \in UnitSeqs :
          /\ yielded + Len(us) <= MaxYield
          /\ yielded' = yielded + Len(us)
          /\ IF us # <<>>
             THEN /\ EnterDlUnits("class", us)
                  /\ UNCHANGED <<ci, logged>>
             ELSE /\ CourseFinished
                  /\ UNCHANGED <<dirs, cwd, trigger, units, ui, runs, expected>>
    /\ UNCHANGED <<fs, layout, pending, ev, served>>
    /\ UNCHANGED <<normvars, startvars, origin>>

\* line 187, the units exhausted: dl_units returns, to line 165 when it was
\* called from get_docs_from_non_xframe, else to the course loop
DlUnitsReturn ==
    /\ pc = "unit_loop"
    /\ ui > Len(units)
    /\ runs' = EndRun(runs, "returned")
    /\ IF trigger = "text"
       THEN /\ pc' = "enumerate"
            /\ UNCHANGED <<ci, logged>>
       ELSE CourseFinished
    /\ units' = <<>>
    /\ ui' = 0
    /\ trigger' = "none"
    /\ ev' = <<>>
    /\ UNCHANGED <<fs, dirs, cwd, layout, pending, expected, served, yielded>>
    /\ UNCHANGED <<normvars, startvars, origin>>

\* lines 187-197: the unit's name is read, its folder made, the unit activated
UnitBegin ==
    /\ pc = "unit_loop"
    /\ ui \in 1..Len(units)
    /\ \/ \* line 189: reading the text of the element raises
          /\ PropagateToMain("RAISED")
          /\ ev' = <<"text_error", "raise">>
          /\ UNCHANGED <<dirs, alog, fs0>>
       \/ \* line 193: unit.click() raises
          /\ dirs' = dirs \cup {cwd \o <<unit_name(units[ui])>>}
          /\ PropagateToMain("RAISED")
          /\ ev' = <<"mkdir", "activate_error", "raise">>
          /\ UNCHANGED <<alog, fs0>>
       \/ /\ dirs' = dirs \cup {cwd \o <<unit_name(units[ui])>>}
          /\ ev' = <<"mkdir", "activate">>
          /\ runs' = SetStatus(runs, "TRIGGERED")
          /\ pc' = "locate"
          /\ UNCHANGED <<ci, layout, trigger, units, ui, pending, logged>>
          /\ UNCHANGED normvars
    /\ UNCHANGED <<fs, cwd, expected, served, yielded, env, net, origin>>

\* lines 201-202 and 205-206 without the sleep
Clicked_NoSettle == <<"click">>

\* lines 201-202 and 205-206: download_btn.click() returns, then sleep(45)
Clicked == <<"click", "settle">>

\* lines 213-216: the finally clause calls the normalizer for the unit
Finally(after) ==
    /\ pending' = after
    /\ MoveStart(target_path(ci, units[ui]), save_folder, <<CourseName(ci)>>, "dl_units")

\* lines 198-202: the control is looked up and clicked, the settle wait elapses
Locate ==
    /\ pc = "locate"
    /\ \/ \E d \in Downloads(ci, units[ui]) :
             /\ served + Cardinality(d) <= MaxDownloads
             /\ served' = served + Cardinality(d)
             /\ fs' = PutAll(fs, d)
             /\ ev' = ev \o <<"locate">> \o Clicked \o <<"normalize">>
             /\ runs' = SetStatus(runs, "COMPLETED")
             /\ Finally("none")
       \/ \* StaleElementReferenceException from the lookup or the click
          /\ ev' = ev \o <<"locate", "stale">>
          /\ runs' = SetStatus(runs, "RETRIED")
          /\ pc' = "stale_retry"
          /\ UNCHANGED <<fs, pending, served>>
          /\ UNCHANGED normvars
       \/ \* NoSuchElementException from the lookup
          /\ ev' = ev \o <<"locate", "absent">>
          /\ pc' = "not_found"
          /\ UNCHANGED <<fs, pending, runs, served>>
          /\ UNCHANGED normvars
       \/ \* any other exception: no handler, the finally clause runs first
          /\ ev' = ev \o <<"locate", "error", "normalize">>
          /\ UNCHANGED <<fs, runs, served>>
          /\ Finally("raise")
    /\ origin' = Appear(origin, {f \in fs' : f.dir = save_folder} \ fs,
                         save_folder \o target_path(ci, units[ui]))
    /\ UNCHANGED <<dirs, cwd, ci, layout, trigger, units, ui, logged, expected, yielded,
                   env, net>>

\* lines 203-206: the handler looks the control up again and clicks; nothing
\* catches what it raises
StaleRetry ==
    /\ pc = "stale_retry"
    /\ \/ \E d \in Downloads(ci, units[ui]) :
             /\ served + Cardinality(d) <= MaxDownloads
             /\ served' = served + Cardinality(d)
             /\ fs' = PutAll(fs, d)
             /\ ev' = ev \o <<"relocate">> \o Clicked \o <<"normalize">>
             /\ runs' = SetStatus(runs, "COMPLETED")
             /\ Finally("none")
       \/ /\ ev' = ev \o <<"relocate", "error", "normalize">>
          /\ UNCHANGED <<fs, runs, served>>
          /\ Finally("raise")
    /\ origin' = Appear(origin, {f \in fs' : f.dir = save_folder} \ fs,
                         save_folder \o target_path(ci, units[ui]))
    /\ UNCHANGED <<dirs, cwd, ci, layout, trigger, units, ui, logged, expected, yielded,
                   env, net>>

\* lines 207-212: the page is saved when its body has text, else the error is
\* logged and the loop continues; the finally clause runs in both cases
NotFound ==
    /\ pc = "not_found"
    /\ \/ /\ fs' = Put(fs, File(save_folder, Mk(unit_name(units[ui]), <<"html">>), 0))
          /\ ev' = ev \o <<"save_page", "normalize">>
          /\ runs' = SetStatus(runs, "SAVED_PAGE")
          /\ UNCHANGED served
          /\ Finally("none")
       \/ /\ ev' = ev \o <<"log_error", "normalize">>
          /\ runs' = SetStatus(runs, "SKIPPED")
          /\ UNCHANGED <<fs, served>>
          /\ Finally("continue")
    /\ origin' = Appear(origin, {f \in fs' : f.dir = save_folder} \ fs,
                         save_folder \o target_path(ci, units[ui]))
    /\ UNCHANGED <<dirs, cwd, ci, layout, trigger, units, ui, logged, expected, yielded,
                   env, net>>

\* line 217 and what the try statement does after its finally clause: the next
\* unit, or the exception that was in flight
DlFinally ==
    /\ pc = "move"
    /\ ret = "dl_units"
    /\ todo = {}
    /\ fs' = clean_up_files(fs, cwd, target_path(ci, units[ui]), {"zip"})
    /\ IF pending = "raise"
       THEN /\ PropagateToMain("RAISED")
            /\ ev' = Append(ev, "raise")
       ELSE /\ ui' = ui + 1
            /\ pending' = "none"
            /\ ev' = Append(ev, "next")
            /\ pc' = "unit_loop"
            /\ ndest' = <<>>
            /\ nsrc' = <<>>
            /\ nfilter' = NoFilter
            /\ ret' = "none"
            /\ UNCHANGED <<ci, layout, trigger, units, todo, runs, logged>>
    /\ alog' = {}
    /\ fs0' = {}
    /\ UNCHANGED <<dirs, cwd, expected, served, yielded, env, net, origin>>

Next ==
    \/ MainLoop
    \/ MainQuit
    \/ Detect
    \/ Enumerate
    \/ DlUnitsReturn
    \/ UnitBegin
    \/ Locate
    \/ StaleRetry
    \/ NotFound
    \/ MoveFile
    \/ DlFinally

Spec == Init /\ [][Next]_vars


-----------------------------------------------------------------------------
(* The normalizer on its own: move_and_extract_files called for the first   *)
(* unit of the first course, as dl_units calls it (line 216) or without a   *)
(* name filter, on a save root and a target folder drawn from bounded sets. *)

NormDest == target_path(1, Unit(<<"Unit 1">>, ""))

NormTarget == save_folder \o NormDest

\* the download of the unit: a .zip with the course's name in its name
NormOwnZips ==
    {{}} \cup {{File(save_folder, Mk(CourseName(1) \o <<"Unit 1">>, <<"zip">>), a)} :
                  a \in 0..Len(Archives)}

\* what else lies in the save root: a stray archive, a saved page, a partial download
NormStrays ==
    SUBSET {File(save_folder, Mk(<<"export">>, <<"zip">>), 3),
            File(save_folder, Mk(<<"Unit 1">>, <<"html">>), 0),
            File(save_folder, Mk(CourseName(1) \o <<"Unit 0">>, <<"zip", "part">>), 0)}

\* what the target folder holds already
NormKept == SUBSET {File(NormTarget, Mk(<<"Week 1">>, <<"html">>), 0)}

NormInit ==
    /\ \E own \in NormOwnZips, strays \in NormStrays, kept \in NormKept :
          fs = own \cup strays \cup kept
    /\ \E made \in BOOLEAN :
          dirs = {save_folder, save_folder \o <<CourseName(1)>>}
                 \cup (IF made THEN {NormTarget} ELSE {})
    /\ cwd = save_folder \o <<CourseName(1)>>
    /\ pc = "norm_idle"
    /\ ci = 1
    /\ layout = "none"
    /\ trigger = "none"
    /\ units = <<>>
    /\ ui = 0
    /\ pending = "none"
    /\ ndest = <<>>
    /\ nsrc = <<>>
    /\ nfilter = NoFilter
    /\ todo = {}
    /\ ret = "none"
    /\ ev = <<>>
    /\ runs = <<>>
    /\ alog = {}
    /\ logged = [c \in Courses |-> "none"]
    /\ fs0 = {}
    /\ expected = [c \in Courses |-> {}]
    /\ served = 0
    /\ yielded = 0
    /\ env = FullEnv
    /\ net = <<>>
    /\ origin = {}

\* lines 216 and 345: the call, with the course's name as filter or with none
NormCall ==
    /\ pc = "norm_idle"
    /\ fs' = fs
    /\ \E filt \in {NoFilter, <<CourseName(1)>>} :
          MoveStart(NormDest, save_folder, filt, "norm")
    /\ UNCHANGED <<dirs, cwd, ci, layout, trigger, units, ui, pending, ev,
                   runs, logged, expected, served, yielded, env, net, origin>>

\* line 239, the files exhausted: move_and_extract_files returns
NormReturn ==
    /\ pc = "move"
    /\ ret = "norm"
    /\ todo = {}
    /\ pc' = "norm_done"
    /\ UNCHANGED <<fs, dirs, cwd, ci, layout, trigger, units, ui, pending, ev,
                   runs, logged, expected, served, yielded, env, net, origin>>
    /\ UNCHANGED normvars

NormNext ==
    \/ NormCall
    \/ MoveFile
    \/ NormReturn

NormSpec == NormInit /\ [][NormNext]_vars


-----------------------------------------------------------------------------
(* The start-up: lines 349-353, from the reading of the catalog to the      *)
(* course loop. The browser is started when the module is loaded (line 60); *)
(* it loads no page before log_in.                                          *)

\* lines 315-316
bootcamp_folder == save_folder \o <<<<"Python coding bootcamp">>>>

\* the directory the program is started in, where courses.json is looked for
launch_folder == <<Root, <<"app">>>>

\* lines 30-35: each variable is set or not
Envs == [user : BOOLEAN, password : BOOLEAN, bootcamp_url : BOOLEAN]

\* lines 336-343: what the links of the bootcamp page deliver
BootcampFiles ==
    SUBSET {File(bootcamp_folder, Mk(<<"dataset">>, <<"zip">>), 3),
            File(bootcamp_folder, Mk(<<"lesson">>, <<"zip">>), 1),
            File(bootcamp_folder, Mk(<<"index">>, <<"html">>), 0)}

\* one request per link (lines 298 and 336-343)
Requests(files) == [i \in 1..Cardinality(files) |-> "http_get"]

StartInit ==
    /\ env \in Envs
    /\ fs = {}
    /\ dirs \in {{launch_folder}, {launch_folder, save_folder}}
    /\ cwd = launch_folder
    /\ pc = "start"
    /\ ci = 1
    /\ layout = "none"
    /\ trigger = "none"
    /\ units = <<>>
    /\ ui = 0
    /\ pending = "none"
    /\ ndest = <<>>
    /\ nsrc = <<>>
    /\ nfilter = NoFilter
    /\ todo = {}
    /\ ret = "none"
    /\ ev = <<>>
    /\ runs = <<>>
    /\ alog = {}
    /\ logged = [c \in Courses |-> "none"]
    /\ fs0 = {}
    /\ expected = [c \in Courses |-> {}]
    /\ served = 0
    /\ yielded = 0
    /\ net = <<>>
    /\ origin = {}

\* line 349 and lines 77-79: the catalog is read, or open() raises
open_course_list ==
    /\ pc = "start"
    /\ pc' \in {"bootcamp", "crashed"}
    /\ UNCHANGED <<fs, dirs, cwd, ci, layout, trigger, units, ui, pending, ev,
                   runs, logged, expected, served, yielded, env, net, origin>>
    /\ UNCHANGED normvars

\* line 350 and lines 315-345: the bootcamp page and its links are requested,
\* the files written to the bootcamp folder, and the normalizer called on it
dl_bootcamp_files ==
    /\ pc = "bootcamp"
    /\ dirs' = dirs \cup {save_folder, bootcamp_folder}
    /\ cwd' = bootcamp_folder
    /\ \/ \* line 319: bc_url is None
          /\ ~env.bootcamp_url
          /\ pc' = "crashed"
          /\ UNCHANGED <<fs, net>>
          /\ UNCHANGED normvars
       \/ \* line 322 or line 300 raises
          /\ env.bootcamp_url
          /\ net' = Append(net, "http_get")
          /\ pc' = "crashed"
          /\ UNCHANGED fs
          /\ UNCHANGED normvars
       \/ /\ env.bootcamp_url
          /\ \E files \in BootcampFiles :
                /\ net' = Append(net, "http_get") \o Requests(files)
                /\ fs' = PutAll(fs, files)
          /\ MoveStart(bootcamp_folder, bootcamp_folder, NoFilter, "bootcamp")
    /\ UNCHANGED <<ci, layout, trigger, units, ui, pending, ev, runs, logged,
                   expected, served, yielded, env, origin>>

\* line 345 has returned
BootcampReturn ==
    /\ pc = "move"
    /\ ret = "bootcamp"
    /\ todo = {}
    /\ pc' = "log_in"
    /\ UNCHANGED <<fs, dirs, cwd, ci, layout, trigger, units, ui, pending, ev,
                   runs, logged, expected, served, yielded, env, net, origin>>
    /\ UNCHANGED normvars

\* line 352 and lines 103-120: the credential check, then the login page
log_in ==
    /\ pc = "log_in"
    /\ IF ~env.user \/ ~env.password
       THEN /\ pc' = "exited"
            /\ UNCHANGED net
       ELSE /\ net' = Append(net, "navigate")
            /\ pc' \in {"clean_up", "crashed"}
    /\ UNCHANGED <<fs, dirs, cwd, ci, layout, trigger, units, ui, pending, ev,
                   runs, logged, expected, served, yielded, env, origin>>
    /\ UNCHANGED normvars

\* line 353: clean_up_files(save_folder), after which the course loop begins
StartCleanUp ==
    /\ pc = "clean_up"
    /\ fs' = clean_up_files(fs, cwd, save_folder, {"zip"})
    /\ pc' = "main_loop"
    /\ UNCHANGED <<dirs, cwd, ci, layout, trigger, units, ui, pending, ev,
                   runs, logged, expected, served, yielded, env, net, origin>>
    /\ UNCHANGED normvars

StartNext ==
    \/ open_course_list
    \/ dl_bootcamp_files
    \/ MoveFile
    \/ BootcampReturn
    \/ log_in
    \/ StartCleanUp

StartSpec == StartInit /\ [][StartNext]_vars

-----------------------------------------------------------------------------
(* Properties *)

HasPrefix(p, q) == Len(q) >= Len(p) /\ SubSeq(q, 1, Len(p)) = p

Occurrences(q, x) == Cardinality({i \in 1..Len(q) : q[i] = x})

\* a member name with an extension of the project-file set: the part after its
\* last dot, when it has a dot
ProjectExts == {"ipynb", "csv", "txt", "py"}

HasProjectExt(n) == n.exts # <<>> /\ Last(n.exts) \in ProjectExts

\* the archive of an entry of alog was opened and its listing read
Classified(e) == e.decision # "NONE"

Listing(e) == Archives[e.arc]

\* what the events of a unit are when the first lookup or click is stale and the
\* retry succeeds, resp. fails
StaleRetryOk ==
    <<"mkdir", "activate", "locate", "stale", "relocate", "click", "settle", "normalize">>

StaleRetryFailed ==
    <<"mkdir", "activate", "locate", "stale", "relocate", "error", "normalize">>

\* C1: when a dl_units call is over, whether it returned or was left by a
\* failure of activating a unit, of the lookup or click, of the stale retry or
\* of the normalizer, every unit of its sequence has been processed: the loop
\* reached the last unit, and each unit's target folder exists.
C1_LaterUnitsProcessed ==
    (runs # <<>> /\ Last(runs).end # "running" /\ ~HasPrefix(<<"text_error">>, ev)) =>
        /\ Last(runs).at = Len(Last(runs).units)
        /\ Len(runs) = 1 => expected[Last(runs).course] \subseteq dirs

\* C2: the course loop never ends before the last course: when the run is over
\* every course of the catalog has been processed and either finished or had
\* its failure logged, and every course that finished has the target folders of
\* all the units its page yielded, whatever happened to the other courses.
C2_CourseIsolation ==
    /\ pc \in {"done", "crashed"} =>
          \A c \in Courses : logged[c] \in {"finished", "exception"}
    /\ \A c \in Courses :
          logged[c] = "finished" => expected[c] \subseteq dirs

\* C2 witness: the run is over, an earlier course raised and a later course
\* produced the folders of its units
C2_Witness ==
    /\ pc = "done"
    /\ \E c \in Courses, d \in Courses :
          /\ c < d
          /\ logged[c] = "exception"
          /\ expected[c] # {}
          /\ logged[d] = "finished"
          /\ expected[d] # {}
          /\ expected[d] \subseteq dirs

\* C3: a unit whose first lookup or click is stale and whose retry succeeds ends
\* COMPLETED with the control re-located exactly once, clicked, the settle wait
\* elapsed and the normalizer run, and the loop then goes on to the next unit.
C3_StaleRetryCompletes ==
    (runs # <<>> /\ HasPrefix(StaleRetryOk, ev)) =>
        /\ Last(runs).st = "COMPLETED"
        /\ Occurrences(ev, "relocate") = 1
        /\ Last(runs).end # "raised"
        /\ Len(ev) > Len(StaleRetryOk) => ev[Len(StaleRetryOk) + 1] = "next"

\* The part of C3 that holds of the code: the unit is COMPLETED, the control was
\* re-located once, and click, settle wait and normalizer follow in this order.
StaleRetryReachesCompleted ==
    (runs # <<>> /\ HasPrefix(StaleRetryOk, ev)) =>
        /\ Last(runs).st = "COMPLETED"
        /\ Occurrences(ev, "relocate") = 1

\* C4: when the retry after a stale lookup fails as well, the unit ends SKIPPED
\* and no exception leaves dl_units.
C4_RetryFailureSkips ==
    (runs # <<>> /\ HasPrefix(StaleRetryFailed, ev) /\ pc # "move") =>
        /\ Last(runs).st = "SKIPPED"
        /\ Last(runs).end # "raised"

\* C5: an archive of at most CAP members, one of them with a project-file
\* extension, is extracted into the subfolder named after the archive only: no
\* extraction into the target folder itself.
C5_NestedOnly ==
    \A e \in alog :
        (/\ Classified(e)
         /\ ~e.raised
         /\ Len(Listing(e)) <= CAP
         /\ \E i \in 1..Len(Listing(e)) : HasProjectExt(Listing(e)[i]))
        => /\ e.nested
           /\ ~e.flat
           /\ \A i \in 1..Len(Listing(e)) :
                 File(e.target, Listing(e)[i], 0) \in fs => File(e.target, Listing(e)[i], 0) \in fs0

\* C6: an archive of more than CAP members is skipped whatever its members are
\* called: nothing is extracted, the archive is not deleted, no error is
\* raised; an archive of exactly CAP members is not skipped.
C6_OversizeSkipped ==
    \A e \in alog :
        Classified(e) =>
            /\ Len(Listing(e)) > CAP =>
                  /\ e.decision = "SKIP"
                  /\ ~e.flat /\ ~e.nested /\ ~e.unlinked /\ ~e.raised
                  /\ File(e.target, e.name, e.arc) \in fs
                  /\ \A g \in fs : (\E i \in 1..Len(Listing(e)) : g.name = Listing(e)[i])
                                      => g \in fs0
            /\ Len(Listing(e)) = CAP => e.decision = "EXTRACT"

\* C6 witness: a call has returned that met an archive of more than CAP members
C6_Witness ==
    /\ pc = "norm_done"
    /\ \E e \in alog : Classified(e) /\ Len(Listing(e)) > CAP /\ e.decision = "SKIP"

\* C7: once move_and_extract_files has returned normally, no archive it
\* extracted exists any more, neither in the source folder nor in the target
\* folder it was moved to.
C7_ExtractedArchiveGone ==
    pc = "norm_done" =>
        \A e \in alog :
            e.decision = "EXTRACT" =>
                \A g \in fs : g.name = e.name => g.dir \notin {e.from, e.target}

\* C7 witness: a call has returned that extracted an archive
C7_Witness ==
    /\ pc = "norm_done"
    /\ \E e \in alog : e.decision = "EXTRACT" /\ e.from # e.target

\* C8: after the normalizer no page with the sentinel in its name is left in the
\* target folder, and every .html page of the folder without the sentinel in its
\* name is still there.
C8_MarkerPruning ==
    pc = "norm_done" =>
        /\ \A g \in fs :
              (g.dir = NormTarget /\ Suffix(g.name) = "html") => ~Contains(Sentinel, g.name)
        /\ \A g \in fs0 :
              (g.dir = NormTarget /\ Suffix(g.name) = "html" /\ ~Contains(Sentinel, g.name))
                  => g \in fs

\* C9: with a non-empty name filter, a file leaves the source folder only if its
\* name contains one of the filter's names.
C9_OnlyMatchingMoved ==
    nfilter # NoFilter =>
        \A f \in fs0 :
            (f.dir = nsrc /\ f \notin fs) =>
                \E k \in 1..Len(nfilter) : Contains(nfilter[k], f.name)

\* The part of C10 that holds of the code: the same, for archives whose member
\* names all have a dot.
FlatFallbackOfDottedNames ==
    \A e \in alog :
        (/\ Classified(e)
         /\ ~e.raised
         /\ Len(Listing(e)) <= CAP
         /\ \A i \in 1..Len(Listing(e)) :
               Listing(e)[i].exts # <<>> /\ ~HasProjectExt(Listing(e)[i]))
        => /\ Listing(e) # <<>> => e.flat
           /\ ~e.nested
           /\ NestedDir(e.target, e.name) \notin dirs
           /\ e.unlinked
           /\ File(e.target, e.name, e.arc) \notin fs

\* C10: an archive of at most CAP members none of which has a project-file
\* extension is extracted into the target folder itself, no subfolder named
\* after the archive is made, and the archive is deleted.
C10_FlatFallback ==
    \A e \in alog :
        (/\ Classified(e)
         /\ ~e.raised
         /\ Len(Listing(e)) <= CAP
         /\ \A i \in 1..Len(Listing(e)) : ~HasProjectExt(Listing(e)[i]))
        => /\ Listing(e) # <<>> => e.flat
           /\ ~e.nested
           /\ NestedDir(e.target, e.name) \notin dirs
           /\ e.unlinked
           /\ File(e.target, e.name, e.arc) \notin fs

\* lines 251-257: the number of extractall calls the scan of a listing makes,
\* one per member before the first project member, and one for that member
RECURSIVE ExtractallCalls(_, _)
ExtractallCalls(i, listing) ==
    IF i > Len(listing) THEN 0
    ELSE IF IsProjectMember(listing[i]) THEN 1
         ELSE 1 + ExtractallCalls(i + 1, listing)

\* the file of an entry of alog is an archive by its name
IsArchiveEntry(e) == Suffix(e.name) = "zip"

\* C11: when move_and_extract_files has returned or was left by an exception,
\* every archive it visited is either extracted by one extractall call and
\* deleted, or skipped as oversized, unextracted and still on disk, or was
\* never taken out of the source folder; none is moved or partly extracted
\* and then left, and none is extracted twice.
C11_ConsumedExactlyOnce ==
    pc \in {"norm_done", "norm_raised"} =>
        \A e \in alog :
            IsArchiveEntry(e) =>
                \/ /\ e.decision = "EXTRACT"
                   /\ ~e.raised
                   /\ e.unlinked
                   /\ ExtractallCalls(1, Listing(e)) <= 1
                \/ /\ e.decision = "SKIP"
                   /\ ~e.flat /\ ~e.nested /\ ~e.unlinked /\ ~e.raised
                   /\ File(e.target, e.name, e.arc) \in fs
                \/ /\ e.decision = "NONE"
                   /\ File(e.from, e.name, e.arc) \in fs

\* the username or the password is not set
CredentialsAbsent == ~env.user \/ ~env.password

\* C12: when the username or the password is absent there is no network
\* activity at any point of the run, neither a request of dl_bootcamp_files
\* nor a page loaded by the browser, and the run never gets past log_in.
C12_NoNetworkWithoutCredentials ==
    CredentialsAbsent =>
        /\ net = <<>>
        /\ pc \notin {"clean_up", "main_loop"}

\* the names target folders are made of: the catalog's course names and the
\* first lines of the units' texts
NameComponents == {CourseName(c) : c \in Courses} \cup {u.name : u \in UnitTexts}

\* the folders below the save root that belong to course c and whose
\* components are course and unit names
TargetFolders(c) ==
    {p \in dirs : /\ Len(p) > Len(save_folder)
                  /\ HasPrefix(save_folder \o <<CourseName(c)>>, p)
                  /\ \A i \in (Len(save_folder) + 1)..Len(p) : p[i] \in NameComponents}

\* the number of units of the k-th dl_units call of the course whose name was
\* read: all when the call returned, else those up to the one it is at
UnitsNamed(k) ==
    IF runs[k].end = "returned" THEN Len(runs[k].units)
    ELSE IF HasPrefix(<<"text_error">>, ev) THEN runs[k].at - 1
         ELSE runs[k].at

\* the folders that follow from the course's name and the names of the units
\* its pages yielded, pass by pass: the k-th pass starts k - 1 levels below the
\* save root
FoldersByName(k) ==
    LET c    == CourseName(runs[k].course)
        base == save_folder \o [j \in 1..(k - 1) |-> c]
    IN {base \o <<c>>}
       \cup {base \o <<c, runs[k].units[i].name>> : i \in 1..UnitsNamed(k)}

\* C13: the target folders a course has are a function of the course's name
\* and of the first lines of the texts of the units its pages yielded, in the
\* order met. Any two runs that start from an empty save root and meet the
\* same pages therefore make the same set of target-folder paths.
C13_NameDeterminism ==
    runs # <<>> =>
        TargetFolders(Last(runs).course) = UNION {FoldersByName(k) : k \in 1..Len(runs)}

\* C13 witness: a course is over, after a download, with the folders of two
\* units of different names
C13_Witness ==
    /\ runs # <<>>
    /\ Last(runs).end = "returned"
    /\ served > 0
    /\ Cardinality(TargetFolders(Last(runs).course)) >= 3

\* The part of C14 that holds of the code: whatever is on disk, a second
\* clean_up_files on a folder leaves what the first one left.
CleanUpTwiceIsOnce ==
    \A d \in dirs : \A exts \in {{"zip"}, {"html"}} :
        clean_up_files(clean_up_files(fs, cwd, d, exts), cwd, d, exts)
            = clean_up_files(fs, cwd, d, exts)

\* the call was made for archives named by a filter when the source folder
\* held no file of such a name
ArchiveAbsent ==
    /\ pc \in {"move", "norm_done", "norm_raised"}
    /\ nfilter # NoFilter
    /\ Filtered(Candidates(fs0, nsrc), nfilter) = {}

\* C14: clean_up_files twice in a row leaves what one call leaves, and a call
\* of move_and_extract_files for an archive that is not in the source folder
\* changes no file and raises nothing.
C14_Idempotent ==
    /\ CleanUpTwiceIsOnce
    /\ ArchiveAbsent => (fs = fs0 /\ pc # "norm_raised")

\* what the events of a unit begin with when the lookup of the control raises
\* not-found
ControlAbsent == <<"mkdir", "activate", "locate", "absent">>

\* the page save_html_page writes for the unit the driver is at
UnitPage == File(save_folder, Mk(unit_name(units[ui]), <<"html">>), 0)

\* The part of C15 that holds of the code: no click and no settle wait, the
\* page saved under the unit's name when the body has text, else the unit
\* SKIPPED.
ControlAbsentSavesOrSkips ==
    (runs # <<>> /\ HasPrefix(ControlAbsent, ev) /\ Len(ev) > Len(ControlAbsent)) =>
        /\ Occurrences(ev, "click") = 0
        /\ Occurrences(ev, "settle") = 0
        /\ ev[5] \in {"save_page", "log_error"}
        /\ (ev[5] = "save_page" /\ pc = "move" /\ alog = {}) =>
              (Last(runs).st = "SAVED_PAGE" /\ UnitPage \in fs)
        /\ (ev[5] = "log_error" /\ pc = "move") => Last(runs).st = "SKIPPED"

\* C15: when the lookup of the download control raises not-found, there is no
\* click and no settle wait for the unit; the page is saved under the unit's
\* name when the body has text, else nothing is saved and the unit is SKIPPED;
\* and in both cases no exception leaves dl_units and the next unit follows.
C15_ControlAbsent ==
    /\ ControlAbsentSavesOrSkips
    /\ (runs # <<>> /\ HasPrefix(ControlAbsent, ev)) =>
          /\ Last(runs).end # "raised"
          /\ Len(ev) > Len(ControlAbsent) + 2 => ev[Len(ControlAbsent) + 3] = "next"

\* The part of C16 that holds of the code: the first dl_units call of a course
\* is by class for a framed page, and by text, without the sentinel entries,
\* for a page without frame.
FirstPassByLayout ==
    (runs # <<>> /\ layout # "none") =>
        /\ layout = "framed" => runs[1].trigger = "class"
        /\ layout = "nonframed" =>
              /\ runs[1].trigger = "text"
              /\ \A i \in 1..Len(runs[1].units) : NotIgnored(runs[1].units[i])

\* C16: a course gets one layout variant: dl_units runs at most once for it, by
\* class when the page has a frame and by text, without the sentinel entries,
\* when it has none, and the enumeration by class never runs for a page
\* without frame.
C16_OneLayoutVariant ==
    /\ FirstPassByLayout
    /\ Len(runs) <= 1
    /\ layout = "nonframed" => pc # "enumerate"
    /\ \A k \in 1..Len(runs) :
          /\ layout = "framed" => runs[k].trigger = "class"
          /\ layout = "nonframed" => runs[k].trigger = "text"

\* course c has a folder of its own below the save root
HasFolders(c) == \E p \in dirs : HasPrefix(save_folder \o <<CourseName(c)>>, p)

\* The part of C17 that holds of the code: a course for which dl_units was not
\* called, a framed course without units among them, has no folder and is
\* logged as finished.
NoDriverNoFolders ==
    /\ (pc \in {"detect", "enumerate"} /\ runs = <<>>) => ~HasFolders(ci)
    /\ (pc = "main_loop" /\ runs = <<>> /\ ci > 1
            /\ logged[ci - 1] = "finished") => ~HasFolders(ci - 1)

\* C17: a course whose pages yielded no unit, with or without frame, and with
\* every entry filtered out as the sentinel or none there at all, has no course
\* folder and no unit folder, and no exception is raised for it.
C17_NoContentNoFolders ==
    /\ NoDriverNoFolders
    /\ (runs # <<>> /\ \A k \in 1..Len(runs) : runs[k].units = <<>>) =>
          /\ ~HasFolders(Last(runs).course)
          /\ Last(runs).end # "raised"

\* an entry of alog whose archive was opened and found not oversized, and whose
\* extraction raised
ExtractionFailed(e) == e.decision = "EXTRACT" /\ e.raised

\* The part of C18 that holds of the code: the archive whose extraction failed
\* is no longer in the source folder, when the target folder is another one.
FailedArchiveLeftSource ==
    \A e \in alog :
        (ExtractionFailed(e) /\ e.from # e.target) =>
            File(e.from, e.name, e.arc) \notin fs

\* C18: an archive that is not skipped is deleted even when its extraction
\* fails partway: it is neither in the source folder nor in the target folder
\* afterwards.
C18_DeletedOnFailure ==
    \A e \in alog :
        ExtractionFailed(e) =>
            /\ File(e.from, e.name, e.arc) \notin fs
            /\ File(e.target, e.name, e.arc) \notin fs

\* C19: for every unit, a click of the download control that succeeded, at the
\* first attempt or at the retry, is followed at once by the settle wait, and
\* the call of the normalizer and the step to the next unit come after the
\* wait; the normalizer is never running for a unit whose click has no settle
\* wait after it.
C19_SettleBeforeNormalize ==
    /\ \A i \in 1..Len(ev) :
          ev[i] = "click" =>
              /\ i < Len(ev)
              /\ ev[i + 1] = "settle"
              /\ \A j \in 1..Len(ev) : ev[j] \in {"normalize", "next"} => j > i + 1
    /\ (pc = "move" /\ ret = "dl_units") =>
          Occurrences(ev, "settle") = Occurrences(ev, "click")

\* C19 witness: the normalizer has visited a file of a unit whose control was
\* clicked at the retry after a stale lookup
C19_Witness ==
    /\ pc = "move"
    /\ ret = "dl_units"
    /\ alog # {}
    /\ Occurrences(ev, "click") = 1
    /\ Occurrences(ev, "relocate") = 1

\* C20: a file the normalizer takes out of the save root goes into the target
\* folder of the unit that was being processed when the file was written
\* there, never into the folder of another unit or course.
C20_MovedToOwnFolder ==
    \A e \in alog :
        e.from = save_folder =>
            \E x \in origin : x.name = e.name /\ x.owner = e.target

=============================================================================
